---- MODULE Spec2Model ----
(***************************************************************************)
(* Model of apps/python-api/main.py: a FastAPI facade over PostgreSQL,     *)
(* Redis and RabbitMQ.  The backends are the environment: whether a         *)
(* connection or a call raises is an input of the action, and time and the *)
(* users table move by environment steps.  SpecConcurrent runs the         *)
(* handlers as tasks of the event loop, several in flight, each stepping   *)
(* through its counter update and the rest of its body; the other          *)
(* specifications take a handler from its first line to its response in    *)
(* one action.                                                             *)
(***************************************************************************)
EXTENDS Integers, Sequences, FiniteSets, TLC

\* ---------------------------------------------------------------- bounds
MaxReq == 2          \* handler invocations in a behaviour of Spec
MaxCacheReq == 3     \* handler invocations in a behaviour of SpecCache
MaxMsgReq == 3       \* handler invocations in a behaviour of SpecMessages
MaxHealthReq == 2    \* handler invocations in a behaviour of SpecHealth
MaxUserReq == 1      \* handler invocations in a behaviour of SpecUsers
MaxClock == 1        \* readings of the wall clock: 0..MaxClock
MaxTasks == 2        \* requests a behaviour of SpecConcurrent accepts
MaxUsers == 11       \* rows the users table grows to
ElapseStep == 1800   \* seconds of cache time that pass in one step

\* ----------------------------------------------------- program constants
CacheTTL == 3600     \* set_cache: ex=3600
UsersLimit == 10     \* get_users: LIMIT 10
DeliveryMode == 2    \* send_message: delivery_mode=2 (persistent)

Keys == {"foo", "qux"}
Values == {"bar", "baz"}
Messages == {"hi"}
Absent == "<absent>"                   \* a request field that was not sent
Priorities == {Absent, "high"}         \* the priority field of the request
Stamps == {1, 2}                       \* created_at values of the rows
Backends == {"postgresql", "redis", "rabbitmq"}
None == "None"                         \* the accessors' absence value

\* Local time zones, with the wall-clock readings after which local time
\* has sprung forward.  One unit of the clock is the length of that gap.
Zones ==
  { [name |-> "UTC", sprung |-> {}],
    [name |-> "America/New_York", sprung |-> {0}] }

Labels ==
  { <<"GET", "/">>, <<"GET", "/health">>, <<"GET", "/metrics">>,
    <<"POST", "/messages">>, <<"GET", "/cache">>, <<"POST", "/cache">>,
    <<"GET", "/database/users">> }

VARIABLES
  REQUEST_COUNT,   \* the Counter's value per (method, endpoint) label
  invoked,         \* history: handler -> invocations begun
  tasks,           \* event loop: request in flight -> [handler, pc, tmp]
  running,         \* event loop: the task it last ran, 0 when that one ended
  cache,           \* Redis: key -> [value, ttl] for the keys that exist
  lastWrite,       \* history: key -> [value, age] of the last successful write
  clock,           \* the reading datetime.utcnow() gives
  tz,              \* the local time zone of the process
  broker,          \* RabbitMQ: declared queue -> sequence of messages
  issued,          \* history: ids returned by successful publishes
  users,           \* PostgreSQL: the rows of table users
  open,            \* backend -> connections opened and not closed
  resp             \* the response of the request handled by the last step

vars == << REQUEST_COUNT, invoked, tasks, running, cache, lastWrite, clock, tz, broker, issued,
           users, open, resp >>

\* ---------------------------------------------------------------- helpers
Min(a, b) == IF a < b THEN a ELSE b

\* Position of x in s, Len(s) + 1 when x is not in s.
Pos(s, x) ==
  IF \E i \in 1..Len(s) : s[i] = x
  THEN CHOOSE i \in 1..Len(s) : s[i] = x
  ELSE Len(s) + 1

Handlers ==
  {"root", "health_check", "metrics", "send_message", "get_cache",
   "set_cache", "get_users"}

Total(c) ==
  c["root"] + c["health_check"] + c["metrics"] + c["send_message"]
  + c["get_cache"] + c["set_cache"] + c["get_users"]

Under(n) == Total(invoked) < n

NoBody == [none |-> TRUE]
Idle ==
  [handler |-> "none", status |-> 0, detail |-> "", body |-> NoBody,
   calls |-> <<>>, conn |-> None, fault |-> "none", request |-> NoBody]

\* What a step leaves in resp: the handler's outcome r = [out, calls, ...],
\* with the inputs of the step (the connection it got, the call that raised).
Response(handler, r, conn, fault, request) ==
  [handler |-> handler, status |-> r.out.status, detail |-> r.out.detail,
   body |-> r.out.body, calls |-> r.calls, conn |-> conn, fault |-> fault,
   request |-> request]

\* raise HTTPException(status_code=..., detail=...)
HTTPException(status, detail) ==
  [raised |-> TRUE, exc |-> "HTTPException", status |-> status,
   detail |-> detail, body |-> NoBody]

\* an exception a backend client raises
BackendError == [raised |-> TRUE, exc |-> "Exception", status |-> 0,
                 detail |-> "", body |-> NoBody]

\* return <body>
Return(body) ==
  [raised |-> FALSE, exc |-> "", status |-> 200, detail |-> "", body |-> body]

\* Variant: the handler without its except clause.
ExceptNothing(tried, detail) == tried

\* try: <tried>  except Exception as e: raise HTTPException(500, detail)
\* HTTPException derives from Exception, so the clause catches it as well.
ExceptException(tried, detail) ==
  IF tried.raised THEN HTTPException(500, detail) ELSE tried

\* --------------------------------------------------------------- metrics
\* The labels each handler passes to REQUEST_COUNT.labels(method, endpoint).
handler_label(h) ==
  CASE h = "root" -> <<"GET", "/">>
    [] h = "health_check" -> <<"GET", "/health">>
    [] h = "metrics" -> <<"GET", "/metrics">>
    [] h = "send_message" -> <<"POST", "/messages">>
    [] h = "get_cache" -> <<"GET", "/cache">>
    [] h = "set_cache" -> <<"POST", "/cache">>
    [] h = "get_users" -> <<"GET", "/database/users">>

\* .inc() adds to the child's value: it reads the value ...
inc_load(c, label) == c[label]

\* ... and writes back the value it read, plus one.
inc_store(c, label, v) == [c EXCEPT ![label] = v + 1]

\* REQUEST_COUNT.labels(method=..., endpoint=...).inc(), without a break
inc(c, label) == inc_store(c, label, inc_load(c, label))

\* The first statement of handler h, in one step.
Count(h) ==
  /\ REQUEST_COUNT' = inc(REQUEST_COUNT, handler_label(h))
  /\ invoked' = [invoked EXCEPT ![h] = @ + 1]

\* ------------------------------------------------------------- accessors
\* try: connect; return conn  except Exception: return None
get_db_connection(raises) == IF raises THEN None ELSE "postgresql"
get_redis_connection(raises) == IF raises THEN None ELSE "redis"
get_rabbitmq_connection(raises) == IF raises THEN None ELSE "rabbitmq"

Opened(b, n) == [open EXCEPT ![b] = @ + n]

\* ----------------------------------------------------------------- cache
\* redis_conn.get(key) with decode_responses=True: <<>> is None, <<v>> is v
redis_get(store, key) ==
  IF key \in DOMAIN store THEN << store[key].value >> ELSE << >>

\* Variant: SET ... NX, which leaves an existing key as it is.
redis_set_nx(store, key, value, ex) ==
  [k \in DOMAIN store \cup {key} |->
     IF k \in DOMAIN store THEN store[k] ELSE [value |-> value, ttl |-> ex]]

\* redis_conn.set(key, value, ex=ex): unconditional, restarts the expiry
redis_set(store, key, value, ex) ==
  [k \in DOMAIN store \cup {key} |->
     IF k = key THEN [value |-> value, ttl |-> ex] ELSE store[k]]

\* d seconds pass in Redis: a key is gone once its time to live is used up
redis_expire(store, d) ==
  [k \in {j \in DOMAIN store : store[j].ttl > d} |->
     [store[k] EXCEPT !.ttl = @ - d]]

get_cache_handler(key, conn, fault, store) ==
  IF conn = None
  THEN [out |-> HTTPException(503, "Redis service unavailable"),
        calls |-> << >>]
  ELSE LET value == redis_get(store, key)
           tried == IF fault = "get" THEN BackendError
                    ELSE IF value = << >>
                         THEN HTTPException(404, "Key not found")
                         ELSE Return([key |-> key, value |-> value[1]])
       IN [out |-> ExceptException(tried, "Failed to get cache value"),
           calls |-> << [op |-> "get", arg |-> key] >>]

get_cache_rest ==
  \E key \in Keys, down \in BOOLEAN, fault \in {"none", "get"} :
    LET conn == get_redis_connection(down)
        r == get_cache_handler(key, conn, fault, cache)
    IN /\ down => fault = "none"
       /\ resp' = Response("get_cache", r, conn, fault, [key |-> key])
       /\ open' = IF conn = None THEN open ELSE Opened("redis", 1)
       /\ UNCHANGED << tz, cache, lastWrite, clock, broker, issued, users >>

set_cache_handler(key, value, conn, fault, store) ==
  IF conn = None
  THEN [out |-> HTTPException(503, "Redis service unavailable"),
        calls |-> << >>, store |-> store]
  ELSE LET tried == IF fault = "set" THEN BackendError
                    ELSE Return([key |-> key, value |-> value,
                                 status |-> "set"])
       IN [out |-> ExceptException(tried, "Failed to set cache value"),
           calls |-> << [op |-> "set", arg |-> key] >>,
           store |-> IF fault = "set" THEN store
                     ELSE redis_set(store, key, value, CacheTTL)]

set_cache_rest ==
  \E key \in Keys, value \in Values, down \in BOOLEAN,
     fault \in {"none", "set"} :
    LET conn == get_redis_connection(down)
        r == set_cache_handler(key, value, conn, fault, cache)
    IN /\ down => fault = "none"
       /\ resp' = Response("set_cache", r, conn, fault,
                           [key |-> key, value |-> value])
       /\ cache' = r.store
       /\ lastWrite' =
            IF r.out.status = 200
            THEN [k \in DOMAIN lastWrite \cup {key} |->
                    IF k = key THEN [value |-> value, age |-> 0]
                    ELSE lastWrite[k]]
            ELSE lastWrite
       /\ open' = IF conn = None THEN open ELSE Opened("redis", 1)
       /\ UNCHANGED << tz, clock, broker, issued, users >>

\* Environment: ElapseStep seconds pass in the cache.
Elapse ==
  /\ \/ DOMAIN cache # {}
     \/ \E k \in DOMAIN lastWrite : lastWrite[k].age < CacheTTL
  /\ cache' = redis_expire(cache, ElapseStep)
  /\ lastWrite' = [k \in DOMAIN lastWrite |->
        [lastWrite[k] EXCEPT !.age = Min(@ + ElapseStep, CacheTTL)]]
  /\ resp' = Idle
  /\ UNCHANGED << tz, tasks, running, REQUEST_COUNT, invoked, clock, broker, issued, users, open >>

\* -------------------------------------------------------------- messages
\* class MessageRequest: message: str; priority: str = "normal"
MessageRequest(message, priority) ==
  [message |-> message,
   priority |-> IF priority = Absent THEN "normal" ELSE priority]

\* Variant: one queue for every priority.
queue_name_fixed(priority) == "messages_normal"

\* f"messages_{message_request.priority}"
queue_name(priority) == "messages_" \o priority

\* datetime.utcnow().timestamp(): utcnow() is naive, and timestamp() reads a
\* naive datetime as local time.  A reading inside the gap of a spring-forward
\* change is taken at the offset before the change, a reading past the gap at
\* the offset after it, so the two meet.  (The zone's constant offset is left
\* out.)
timestamp(t, zone) ==
  IF \E g \in zone.sprung : t > g THEN t - 1 ELSE t

\* f"msg_{datetime.utcnow().timestamp()}", the timestamp written in decimal
message_id(t, zone) == "msg_" \o ToString(timestamp(t, zone))

\* datetime.utcnow().isoformat(), the reading t written in decimal
isoformat(t) == ToString(t)

\* json.dumps of a dict: the members in insertion order
message_body(id, req, t) ==
  << <<"id", id>>, <<"message", req.message>>,
     <<"priority", req.priority>>, <<"timestamp", isoformat(t)>> >>

\* channel.queue_declare(queue=queue, durable=True): creates it if absent
queue_declare(b, queue) ==
  [q \in DOMAIN b \cup {queue} |-> IF q \in DOMAIN b THEN b[q] ELSE << >>]

\* channel.basic_publish(exchange="", routing_key=..., body=..., properties=
\* BasicProperties(delivery_mode=...)): the default exchange routes to the
\* queue named by the routing key and drops the message if there is none
basic_publish(b, routing_key, body, delivery_mode) ==
  IF routing_key \in DOMAIN b
  THEN [b EXCEPT ![routing_key] =
          Append(@, [body |-> body, delivery_mode |-> delivery_mode])]
  ELSE b

\* The calls of the try block, in the order the code makes them.
send_message_calls(queue) ==
  << [op |-> "channel", arg |-> ""],
     [op |-> "queue_declare", arg |-> queue],
     [op |-> "basic_publish", arg |-> queue],
     [op |-> "channel.close", arg |-> ""],
     [op |-> "close", arg |-> ""] >>

MessageFaults ==
  {"none", "channel", "queue_declare", "basic_publish", "channel.close",
   "close"}

\* The calls made when the call named fault raises: up to it, inclusive.
Made(calls, fault) ==
  LET ops == [i \in 1..Len(calls) |-> calls[i].op]
  IN SubSeq(calls, 1, Min(Pos(ops, fault), Len(calls)))

\* Call op returned (it comes before the call that raises).
Done(calls, fault, op) ==
  LET ops == [i \in 1..Len(calls) |-> calls[i].op]
  IN Pos(ops, op) < Pos(ops, fault)

\* t1, t2, t3: the readings of utcnow() for the id, for the envelope and for
\* the response.
send_message_handler(req, conn, fault, b, zone, t1, t2, t3) ==
  IF conn = None
  THEN [out |-> HTTPException(503, "RabbitMQ service unavailable"),
        calls |-> << >>, broker |-> b, closed |-> FALSE]
  ELSE LET queue == queue_name(req.priority)
           id == message_id(t1, zone)
           calls == send_message_calls(queue)
           declared == IF Done(calls, fault, "queue_declare")
                       THEN queue_declare(b, queue) ELSE b
           published == IF Done(calls, fault, "basic_publish")
                        THEN basic_publish(declared, queue,
                                           message_body(id, req, t2),
                                           DeliveryMode)
                        ELSE declared
           tried == IF fault # "none" THEN BackendError
                    ELSE Return([id |-> id, message |-> req.message,
                                 status |-> "sent",
                                 timestamp |-> isoformat(t3)])
       IN [out |-> ExceptException(tried, "Failed to send message"),
           calls |-> Made(calls, fault), broker |-> published,
           closed |-> Done(calls, fault, "close")]

send_message_rest ==
  \E message \in Messages, priority \in Priorities, down \in BOOLEAN,
     fault \in MessageFaults, t2 \in clock..MaxClock, t3 \in clock..MaxClock :
    LET conn == get_rabbitmq_connection(down)
        req == MessageRequest(message, priority)
        r == send_message_handler(req, conn, fault, broker, tz, clock, t2, t3)
    IN /\ down => fault = "none"
       \* the clock does not go back between the reads, and moves in this
       \* step only up to the last read the handler makes
       /\ t2 <= t3
       /\ (down \/ ~Done(send_message_calls(""), fault, "queue_declare"))
            => t2 = clock
       /\ fault # "none" => t3 = t2
       /\ clock' = t3
       /\ resp' = Response("send_message", r, conn, fault,
                           [message |-> message, priority |-> priority])
       /\ broker' = r.broker
       /\ issued' = IF r.out.status = 200
                    THEN Append(issued, r.out.body.id) ELSE issued
       /\ open' = IF conn # None /\ ~r.closed
                  THEN Opened("rabbitmq", 1) ELSE open
       /\ UNCHANGED << tz, cache, lastWrite, users >>

\* Environment: the wall clock moves on to its next reading.
Tick ==
  /\ clock < MaxClock
  /\ clock' = clock + 1
  /\ resp' = Idle
  /\ UNCHANGED << tz, tasks, running, REQUEST_COUNT, invoked, cache, lastWrite, broker, issued,
                  users, open >>

\* ---------------------------------------------------------------- health
\* The handler's progress through its three checks: the services dict, the
\* backend calls made, the connections left open, and whether an exception
\* left the handler.
HealthStart ==
  [services |-> [b \in Backends |-> "disconnected"], calls |-> << >>,
   left |-> [b \in Backends |-> 0], escaped |-> FALSE]

postgresql_calls ==
  << [op |-> "cursor", arg |-> "postgresql"],
     [op |-> "execute", arg |-> "SELECT 1"],
     [op |-> "close", arg |-> "postgresql"] >>

\* Variant: the PostgreSQL check without its try/except.
check_postgresql_unguarded(h, conn, fault) ==
  IF h.escaped \/ conn = None THEN h
  ELSE [h EXCEPT
          !.services["postgresql"] =
             IF Done(postgresql_calls, fault, "execute")
             THEN "connected" ELSE @,
          !.calls = @ \o Made(postgresql_calls, fault),
          !.left["postgresql"] =
             IF Done(postgresql_calls, fault, "close") THEN @ ELSE @ + 1,
          !.escaped = fault # "none"]

\* # Check PostgreSQL
check_postgresql(h, conn, fault) ==
  IF h.escaped \/ conn = None THEN h
  ELSE [h EXCEPT
          !.services["postgresql"] =
             IF Done(postgresql_calls, fault, "execute")
             THEN "connected" ELSE @,
          !.calls = @ \o Made(postgresql_calls, fault),
          !.left["postgresql"] =
             IF Done(postgresql_calls, fault, "close") THEN @ ELSE @ + 1]

redis_calls == << [op |-> "ping", arg |-> "redis"] >>

\* Variant: `elif redis_conn`, reached only when PostgreSQL did connect.
check_redis_elif(h, conn, fault) ==
  IF h.escaped \/ conn = None \/ h.services["postgresql"] = "disconnected"
  THEN h
  ELSE [h EXCEPT
          !.services["redis"] =
             IF Done(redis_calls, fault, "ping") THEN "connected" ELSE @,
          !.calls = @ \o Made(redis_calls, fault),
          !.left["redis"] = @ + 1]

\* # Check Redis
check_redis(h, conn, fault) ==
  IF h.escaped \/ conn = None THEN h
  ELSE [h EXCEPT
          !.services["redis"] =
             IF Done(redis_calls, fault, "ping") THEN "connected" ELSE @,
          !.calls = @ \o Made(redis_calls, fault),
          !.left["redis"] = @ + 1]

rabbitmq_calls == << [op |-> "close", arg |-> "rabbitmq"] >>

\* # Check RabbitMQ
check_rabbitmq(h, conn, fault) ==
  IF h.escaped \/ conn = None THEN h
  ELSE [h EXCEPT
          !.services["rabbitmq"] =
             IF Done(rabbitmq_calls, fault, "close") THEN "connected" ELSE @,
          !.calls = @ \o Made(rabbitmq_calls, fault),
          !.left["rabbitmq"] =
             IF Done(rabbitmq_calls, fault, "close") THEN @ ELSE @ + 1]

\* return HealthResponse(status="healthy", ...)
HealthResponse(services, t) ==
  [status |-> "healthy", message |-> "API is running",
   timestamp |-> isoformat(t), version |-> "1.0.0", services |-> services]

health_check_handler(db, dbFault, rd, rdFault, mq, mqFault, t) ==
  LET h == check_rabbitmq(
             check_redis(
               check_postgresql(HealthStart, db, dbFault), rd, rdFault),
             mq, mqFault)
  IN [out |-> IF h.escaped THEN HTTPException(500, "Internal Server Error")
              ELSE Return(HealthResponse(h.services, t)),
      calls |-> h.calls, left |-> h.left]

health_check_rest ==
  \E dbDown \in BOOLEAN, dbFault \in {"none", "cursor", "execute", "close"},
     rdDown \in BOOLEAN, rdFault \in {"none", "ping"},
     mqDown \in BOOLEAN, mqFault \in {"none", "close"} :
    LET db == get_db_connection(dbDown)
        rd == get_redis_connection(rdDown)
        mq == get_rabbitmq_connection(mqDown)
        r == health_check_handler(db, dbFault, rd, rdFault, mq, mqFault,
                                  clock)
    IN /\ dbDown => dbFault = "none"
       /\ rdDown => rdFault = "none"
       /\ mqDown => mqFault = "none"
       /\ resp' = Response("health_check", r,
                           [postgresql |-> db, redis |-> rd, rabbitmq |-> mq],
                           [postgresql |-> dbFault, redis |-> rdFault,
                            rabbitmq |-> mqFault],
                           NoBody)
       /\ open' = [b \in Backends |-> open[b] + r.left[b]]
       /\ UNCHANGED << tz, cache, lastWrite, clock, broker, issued, users >>

\* ----------------------------------------------------------------- users
Rows(table) == {table[i] : i \in 1..Len(table)}

\* Variant: ORDER BY created_at ASC.
first_asc(rows, tie) ==
  LET oldest == {r \in rows : \A o \in rows : o.created_at >= r.created_at}
  IN CHOOSE r \in oldest :
       \A o \in oldest : IF tie = "low" THEN r.id <= o.id ELSE r.id >= o.id

\* The row ORDER BY created_at DESC puts first; the order among rows of
\* equal created_at is the database's choice: lowest or highest id here.
first_desc(rows, tie) ==
  LET newest == {r \in rows : \A o \in rows : o.created_at <= r.created_at}
  IN CHOOSE r \in newest :
       \A o \in newest : IF tie = "low" THEN r.id <= o.id ELSE r.id >= o.id

RECURSIVE order_by_created_at_desc(_, _)
order_by_created_at_desc(rows, tie) ==
  IF rows = {} THEN << >>
  ELSE LET r == first_desc(rows, tie)
       IN << r >> \o order_by_created_at_desc(rows \ {r}, tie)

\* SELECT * FROM users ORDER BY created_at DESC LIMIT <limit>
select_users(table, limit, tie) ==
  LET ordered == order_by_created_at_desc(Rows(table), tie)
  IN SubSeq(ordered, 1, Min(limit, Len(ordered)))

get_users_calls ==
  << [op |-> "cursor", arg |-> ""],
     [op |-> "execute",
      arg |-> "SELECT * FROM users ORDER BY created_at DESC LIMIT 10"],
     [op |-> "fetchall", arg |-> ""],
     [op |-> "close", arg |-> ""] >>

UserFaults == {"none", "cursor", "execute", "fetchall", "close"}

get_users_handler(conn, fault, table, tie) ==
  IF conn = None
  THEN [out |-> HTTPException(503, "Database service unavailable"),
        calls |-> << >>, closed |-> FALSE]
  ELSE LET tried == IF fault # "none" THEN BackendError
                    ELSE Return([users |->
                                   select_users(table, UsersLimit, tie)])
       IN [out |-> ExceptException(tried, "Failed to get users"),
           calls |-> Made(get_users_calls, fault),
           closed |-> Done(get_users_calls, fault, "close")]

get_users_rest ==
  \E down \in BOOLEAN, fault \in UserFaults, tie \in {"low", "high"} :
    LET conn == get_db_connection(down)
        r == get_users_handler(conn, fault, users, tie)
    IN /\ down => fault = "none"
       /\ (down \/ fault # "none") => tie = "low"
       /\ resp' = Response("get_users", r, conn, fault, NoBody)
       /\ open' = IF conn # None /\ ~r.closed
                  THEN Opened("postgresql", 1) ELSE open
       /\ UNCHANGED << tz, cache, lastWrite, clock, broker, issued, users >>

\* Environment: another client of the database inserts a row.
InsertUser ==
  \E stamp \in Stamps :
    /\ Len(users) < MaxUsers
    /\ users' = Append(users, [id |-> Len(users) + 1, created_at |-> stamp])
    /\ resp' = Idle
    /\ UNCHANGED << tz, tasks, running, REQUEST_COUNT, invoked, cache, lastWrite, clock, broker,
                    issued, open >>

\* ------------------------------------------------------- root and metrics
root_rest ==
  /\ resp' = Response("root",
                      [out |-> Return([message |-> "Kubernetes Homelab API",
                                       version |-> "1.0.0"]),
                       calls |-> << >>],
                      None, "none", NoBody)
  /\ UNCHANGED << tz, cache, lastWrite, clock, broker, issued, users, open >>

\* generate_latest(): the exposition of the registry, read after the inc()
metrics_rest ==
  /\ resp' = Response("metrics",
                      [out |-> Return([http_requests_total |->
                                         REQUEST_COUNT']),
                       calls |-> << >>],
                      None, "none", NoBody)
  /\ UNCHANGED << tz, cache, lastWrite, clock, broker, issued, users, open >>

\* ------------------------------------------------------------ event loop
\* Variant: handlers that give up the event loop after every statement.
yields_anywhere(pc) == TRUE

\* Whether a handler at pc gives up the event loop before its next statement.
\* Every handler is an `async def` and none contains an `await`.
yields(pc) == FALSE

\* The event loop may run task r: no other task is in the middle of its
\* handler, or that one has given up the loop.
Runnable(r) ==
  \/ running = 0
  \/ running = r
  \/ (running \in DOMAIN tasks /\ yields(tasks[running].pc))

Waiting == {r \in DOMAIN tasks : tasks[r].pc = "ready"}

\* A request arrives while others are in flight: its handler becomes a task.
Arrive ==
  \E h \in Handlers :
    /\ Total(invoked) + Cardinality(Waiting) < MaxTasks
    /\ LET r == CHOOSE i \in 1..MaxTasks : i \notin DOMAIN tasks
       IN tasks' = [i \in DOMAIN tasks \cup {r} |->
                      IF i = r THEN [handler |-> h, pc |-> "ready", tmp |-> 0]
                      ELSE tasks[i]]
    /\ resp' = Idle
    /\ UNCHANGED << tz, REQUEST_COUNT, invoked, running, cache, lastWrite,
                    clock, broker, issued, users, open >>

\* The handler of task r begins: .inc() reads the counter.
Load ==
  \E r \in DOMAIN tasks :
    /\ tasks[r].pc = "ready"
    /\ Runnable(r)
    /\ tasks' = [tasks EXCEPT
                   ![r].pc = "loaded",
                   ![r].tmp = inc_load(REQUEST_COUNT,
                                       handler_label(tasks[r].handler))]
    /\ invoked' = [invoked EXCEPT ![tasks[r].handler] = @ + 1]
    /\ running' = r
    /\ resp' = Idle
    /\ UNCHANGED << tz, REQUEST_COUNT, cache, lastWrite, clock, broker,
                    issued, users, open >>

\* .inc() of task r writes the counter.
Store ==
  \E r \in DOMAIN tasks :
    /\ tasks[r].pc = "loaded"
    /\ Runnable(r)
    /\ REQUEST_COUNT' = inc_store(REQUEST_COUNT,
                                  handler_label(tasks[r].handler),
                                  tasks[r].tmp)
    /\ tasks' = [tasks EXCEPT ![r].pc = "counted"]
    /\ running' = r
    /\ resp' = Idle
    /\ UNCHANGED << tz, invoked, cache, lastWrite, clock, broker, issued,
                    users, open >>

\* Task r runs the statements of handler h after the .inc(), to the response.
Finish(h, rest) ==
  \E r \in DOMAIN tasks :
    /\ tasks[r].handler = h
    /\ tasks[r].pc = "counted"
    /\ Runnable(r)
    /\ UNCHANGED << REQUEST_COUNT, invoked >>
    /\ rest
    /\ tasks' = [i \in DOMAIN tasks \ {r} |-> tasks[i]]
    /\ running' = 0

\* ----------------------------------------------- handlers, in one action
root == Count("root") /\ root_rest /\ UNCHANGED << tasks, running >>

health_check ==
  Count("health_check") /\ health_check_rest /\ UNCHANGED << tasks, running >>

metrics == Count("metrics") /\ metrics_rest /\ UNCHANGED << tasks, running >>

send_message ==
  Count("send_message") /\ send_message_rest /\ UNCHANGED << tasks, running >>

get_cache ==
  Count("get_cache") /\ get_cache_rest /\ UNCHANGED << tasks, running >>

set_cache ==
  Count("set_cache") /\ set_cache_rest /\ UNCHANGED << tasks, running >>

get_users ==
  Count("get_users") /\ get_users_rest /\ UNCHANGED << tasks, running >>

\* ------------------------------------------------------- specifications
Init ==
  /\ REQUEST_COUNT = [l \in Labels |-> 0]
  /\ invoked = [h \in Handlers |-> 0]
  /\ tasks = << >>
  /\ running = 0
  /\ cache = << >>
  /\ lastWrite = << >>
  /\ clock = 0
  /\ tz \in Zones
  /\ broker = << >>
  /\ issued = << >>
  /\ users = << >>
  /\ open = [b \in Backends |-> 0]
  /\ resp = Idle

NextConcurrent ==
  \/ Arrive
  \/ Load
  \/ Store
  \/ Finish("root", root_rest)
  \/ Finish("health_check", health_check_rest)
  \/ Finish("metrics", metrics_rest)
  \/ Finish("send_message", send_message_rest)
  \/ Finish("get_cache", get_cache_rest)
  \/ Finish("set_cache", set_cache_rest)
  \/ Finish("get_users", get_users_rest)

SpecConcurrent == Init /\ [][NextConcurrent]_vars

\* Spec: every handler, with time passing.  SpecUsers: the user listing
\* while other clients fill the table.  SpecCache, SpecMessages, SpecHealth:
\* one group of handlers each, over longer runs.
Next ==
  \/ Under(MaxReq) /\ root
  \/ Under(MaxReq) /\ health_check
  \/ Under(MaxReq) /\ metrics
  \/ Under(MaxReq) /\ send_message
  \/ Under(MaxReq) /\ get_cache
  \/ Under(MaxReq) /\ set_cache
  \/ Under(MaxReq) /\ get_users
  \/ Tick
  \/ Elapse

Spec == Init /\ [][Next]_vars

NextUsers ==
  \/ Under(MaxUserReq) /\ get_users
  \/ InsertUser

SpecUsers == Init /\ [][NextUsers]_vars

NextMessages ==
  \/ Under(MaxMsgReq) /\ send_message
  \/ Tick

SpecMessages == Init /\ [][NextMessages]_vars

NextHealth ==
  \/ Under(MaxHealthReq) /\ health_check
  \/ Tick

SpecHealth == Init /\ [][NextHealth]_vars

NextCache ==
  \/ Under(MaxCacheReq) /\ get_cache
  \/ Under(MaxCacheReq) /\ set_cache
  \/ Elapse

SpecCache == Init /\ [][NextCache]_vars

\* ============================================================== properties
Range(q) == {q[i] : i \in 1..Len(q)}

\* The last step was a GET /cache/{key} that got its connection and whose
\* get() returned.
CacheRead ==
  /\ resp.handler = "get_cache"
  /\ resp.conn # None
  /\ resp.fault = "none"

\* C1: GET /cache/{key}, with the cache reachable and the key absent,
\* responds 404 (and so never 500).
C1_AbsentKeyIsNotFound ==
  (CacheRead /\ resp.request.key \notin DOMAIN cache) => resp.status = 404

\* C2: a GET /cache/k that reaches the cache less than one hour after the
\* latest successful POST /cache/k returns {key: k, value: v} with the
\* value v of that write.
C2_ReadReturnsLatestWrite ==
  ( /\ CacheRead
    /\ resp.request.key \in DOMAIN lastWrite
    /\ lastWrite[resp.request.key].age < 3600 )
  => /\ resp.status = 200
     /\ resp.body = [key |-> resp.request.key,
                     value |-> lastWrite[resp.request.key].value]

\* A read of a key written earlier, after time has passed, answered 200.
C2_Witness ==
  /\ CacheRead
  /\ resp.request.key \in DOMAIN lastWrite
  /\ lastWrite[resp.request.key].age > 0
  /\ lastWrite[resp.request.key].age < 3600
  /\ resp.status = 200
  /\ resp.body.value = "baz"

BackendHandlers == {"send_message", "get_cache", "set_cache", "get_users"}

\* C3: in POST /messages, GET and POST /cache/{key} and GET /database/users,
\* no connection gives 503 with no call made on the backend, a backend call
\* that raises gives 500, and no exception leaves the handler (status 0).
C3_BackendErrorsNormalized ==
  resp.handler \in BackendHandlers =>
    /\ resp.status # 0
    /\ resp.conn = None => (resp.status = 503 /\ resp.calls = << >>)
    /\ (resp.conn # None /\ resp.fault # "none") => resp.status = 500

\* The users query raised on an open connection and the answer was 500.
C3_Witness ==
  /\ resp.handler = "get_users"
  /\ resp.conn # None
  /\ resp.fault = "execute"
  /\ resp.status = 500

\* C4: no two successful publishes return the same id.
C4_DistinctIds ==
  \A i, j \in 1..Len(issued) : i # j => issued[i] # issued[j]

\* The queue a priority field selects, written out.
QueueOf(priority) ==
  IF priority = Absent THEN "messages_normal" ELSE "messages_" \o priority

\* C5: a successful POST /messages with priority p declares messages_p
\* before publishing, adds exactly one persistent message to messages_p and
\* touches no other queue, and answers status "sent" with an id "msg_..."
\* that is the id in the enqueued envelope.
C5_PublishTargetsPriorityQueue ==
  [][ (resp'.handler = "send_message" /\ resp'.status = 200) =>
        LET q == QueueOf(resp'.request.priority)
            before == IF q \in DOMAIN broker THEN broker[q] ELSE << >>
        IN /\ \E i, j \in 1..Len(resp'.calls) :
                /\ i < j
                /\ resp'.calls[i] = [op |-> "queue_declare", arg |-> q]
                /\ resp'.calls[j] = [op |-> "basic_publish", arg |-> q]
           /\ DOMAIN broker' = DOMAIN broker \cup {q}
           /\ \A o \in DOMAIN broker : o # q => broker'[o] = broker[o]
           /\ Len(broker'[q]) = Len(before) + 1
           /\ SubSeq(broker'[q], 1, Len(before)) = before
           /\ broker'[q][Len(before) + 1].delivery_mode = 2
           /\ broker'[q][Len(before) + 1].body[1] = <<"id", resp'.body.id>>
           /\ resp'.body.status = "sent"
           /\ \E t \in 0..MaxClock : resp'.body.id = "msg_" \o ToString(t)
    ]_vars

\* A publish with priority "high" succeeded onto a queue that already held a
\* message, while queue messages_normal exists as well.
C5_Witness ==
  /\ resp.handler = "send_message"
  /\ resp.status = 200
  /\ resp.request.priority = "high"
  /\ "messages_high" \in DOMAIN broker
  /\ Len(broker["messages_high"]) = 2
  /\ "messages_normal" \in DOMAIN broker

\* The probe of backend b failed in the last /health request: no connection,
\* or the probing call raised.
ProbeFailed(b) ==
  \/ resp.conn[b] = None
  \/ resp.fault[b] \in {"cursor", "execute", "ping"}
  \/ (b = "rabbitmq" /\ resp.fault[b] = "close")

\* C6: GET /health answers 200 with status "healthy" whatever the backends
\* do, and with every backend "disconnected" when all three probes fail.
C6_HealthAlwaysHealthy ==
  resp.handler = "health_check" =>
    /\ resp.status = 200
    /\ resp.body.status = "healthy"
    /\ (\A b \in Backends : ProbeFailed(b)) =>
         \A b \in Backends : resp.body.services[b] = "disconnected"

\* All three probes failed, one of them by an exception, and the answer was
\* 200.
C6_Witness ==
  /\ resp.handler = "health_check"
  /\ resp.fault["postgresql"] = "execute"
  /\ \A b \in Backends : ProbeFailed(b)
  /\ resp.status = 200
  /\ \A b \in Backends : resp.body.services[b] = "disconnected"

\* The call that probes backend b.
ProbeCall(b) ==
  IF b = "postgresql" THEN [op |-> "cursor", arg |-> "postgresql"]
  ELSE IF b = "redis" THEN [op |-> "ping", arg |-> "redis"]
  ELSE [op |-> "close", arg |-> "rabbitmq"]

\* C7: in GET /health each backend is "connected" exactly when its own
\* connection and probe succeed, and each backend that gave a connection is
\* probed, whatever happens to the other two.
C7_ProbesIndependent ==
  (resp.handler = "health_check" /\ resp.status = 200) =>
    \A b \in Backends :
      /\ resp.body.services[b] = "connected" <=> ~ProbeFailed(b)
      /\ resp.body.services[b] \in {"connected", "disconnected"}
      /\ resp.conn[b] # None => ProbeCall(b) \in Range(resp.calls)

\* PostgreSQL gave no connection, and Redis and RabbitMQ were probed and
\* are connected.
C7_Witness ==
  /\ resp.handler = "health_check"
  /\ resp.conn["postgresql"] = None
  /\ resp.body.services["postgresql"] = "disconnected"
  /\ resp.body.services["redis"] = "connected"
  /\ resp.body.services["rabbitmq"] = "connected"

\* The label of each handler's counter, as the routes give it.
LabelOf(h) ==
  IF h = "root" THEN <<"GET", "/">>
  ELSE IF h = "health_check" THEN <<"GET", "/health">>
  ELSE IF h = "metrics" THEN <<"GET", "/metrics">>
  ELSE IF h = "send_message" THEN <<"POST", "/messages">>
  ELSE IF h = "get_cache" THEN <<"GET", "/cache">>
  ELSE IF h = "set_cache" THEN <<"POST", "/cache">>
  ELSE <<"GET", "/database/users">>

\* The tasks of handler h that have read the counter and not yet written it.
MidInc(h) ==
  {r \in DOMAIN tasks : tasks[r].handler = h /\ tasks[r].pc = "loaded"}

\* C8: with requests in flight together, the request counter of each
\* (method, endpoint) label equals the number of invocations of that label's
\* handler so far (less those in the middle of their inc()); every inc() adds
\* exactly one to its own label, whatever the response will be, and no other
\* step changes, resets or decreases a counter.
C8_CounterCountsInvocations ==
  /\ [](\A h \in Handlers :
         REQUEST_COUNT[LabelOf(h)] + Cardinality(MidInc(h)) = invoked[h])
  /\ [][ IF \E r \in DOMAIN tasks :
             /\ tasks[r].pc = "loaded"
             /\ r \in DOMAIN tasks'
             /\ tasks'[r].pc = "counted"
         THEN \E r \in DOMAIN tasks :
                /\ tasks[r].pc = "loaded"
                /\ REQUEST_COUNT' =
                     [REQUEST_COUNT EXCEPT
                        ![LabelOf(tasks[r].handler)] = @ + 1]
         ELSE REQUEST_COUNT' = REQUEST_COUNT
       ]_vars

\* Two GET /cache requests are in flight together: the handler of one has
\* done its inc() and not yet answered, the other has not begun, and the
\* counter stands at one.
C8_Witness ==
  /\ \E r1, r2 \in DOMAIN tasks :
       /\ tasks[r1] = [handler |-> "get_cache", pc |-> "counted", tmp |-> 0]
       /\ tasks[r2].handler = "get_cache"
       /\ tasks[r2].pc = "ready"
  /\ REQUEST_COUNT[<<"GET", "/cache">>] = 1
  /\ REQUEST_COUNT[<<"POST", "/cache">>] = 0

\* C9: a successful GET /database/users returns at most 10 rows, the most
\* recently created rows of the table, in descending order of created_at.
C9_UsersNewestFirst ==
  (resp.handler = "get_users" /\ resp.status = 200) =>
    LET out == resp.body.users
    IN /\ Len(out) <= 10
       /\ Len(out) = (IF Len(users) < 10 THEN Len(users) ELSE 10)
       /\ Range(out) \subseteq Rows(users)
       /\ \A i, j \in 1..Len(out) : i # j => out[i] # out[j]
       /\ \A i, j \in 1..Len(out) :
            i < j => out[i].created_at >= out[j].created_at
       /\ \A r \in Rows(users) \ Range(out) :
            \A i \in 1..Len(out) : r.created_at <= out[i].created_at

\* Eleven rows of both ages, the oldest inserted last: ten come back, newest
\* first, and an old row is left out.
C9_Witness ==
  /\ resp.handler = "get_users"
  /\ resp.status = 200
  /\ Len(users) = 11
  /\ users[1].created_at = 1
  /\ users[2].created_at = 2
  /\ Len(resp.body.users) = 10
  /\ resp.body.users[1].created_at = 2
  /\ resp.body.users[10].created_at = 1

\* C10: no connection opened by a finished request is still open.
C10_ConnectionsReleased ==
  \A b \in Backends : open[b] = 0

====
